---------------------------- MODULE Spec2Model ----------------------------
(***************************************************************************)
(* A model of four components of the detection code base:                  *)
(*   - BaseDetector.forward / forward_test   (mmdet/models/detectors)      *)
(*   - BFP.forward / FRCNBFP.forward         (mmdet/models/necks)          *)
(*   - CustomBlockDataset                    (mmdet/datasets)              *)
(*   - anchor_target_single                  (mmdet/core/anchor)           *)
(* Each component has its own variables and its own specification; the     *)
(* variables of the other components stay at their idle values.            *)
(***************************************************************************)
EXTENDS Integers, Sequences, FiniteSets, TLC

VARIABLES
    d_pc,       \* detector: "ready" | "forward" | "forward_test"
    d_in,       \* detector: arguments of the pending call
    d_calls,    \* detector: abstract routines invoked, in order
    d_out,      \* detector: outcome of the call (return value or exception)
    n_pc,       \* neck: "ready" | "done"
    n_cfg,      \* neck: the attributes set by the module's constructor
    n_in,       \* neck: the list of feature maps passed to forward
    n_out,      \* neck: outcome of forward
    ds_loaded,  \* dataset: what load_annotations / load_proposals returned
    ds,         \* dataset: the attributes of the constructed dataset (self)
    fs,         \* dataset: the stems of the files in the image directory
    g_pc,       \* __getitem__: "idle" | "loop" | "returned" | "raised"
    g_req,      \* __getitem__: the index the caller asked for
    g_idx,      \* __getitem__: the index being prepared
    g_tried,    \* __getitem__: the indices whose preparation gave None
    g_out,      \* __getitem__: what the last preparation produced
    a_pc,       \* anchor targets: "ready" | "done"
    a_in,       \* anchor targets: the arguments of anchor_target_single
    a_out       \* anchor targets: what anchor_target_single produced

d_vars == <<d_pc, d_in, d_calls, d_out>>
n_vars == <<n_pc, n_cfg, n_in, n_out>>
ds_vars == <<ds_loaded, ds, fs>>
g_vars == <<g_pc, g_req, g_idx, g_tried, g_out>>
a_vars == <<a_pc, a_in, a_out>>

vars == <<d_pc, d_in, d_calls, d_out, n_pc, n_cfg, n_in, n_out,
          ds_loaded, ds, fs, g_pc, g_req, g_idx, g_tried, g_out,
          a_pc, a_in, a_out>>

\* ------------------------------------------------------------------
\* Generic helpers
\* ------------------------------------------------------------------
NoValue == [kind |-> "none"]

Raise(exc, what) == [kind |-> "raise", exc |-> exc, what |-> what]

\* All sequences over S of length 0..n
SeqUpTo(S, n) == UNION {[1..k -> S] : k \in 0..n}

\* ------------------------------------------------------------------
\* BaseDetector
\* ------------------------------------------------------------------
\* bounds of the detector inputs
MaxAugs == 3
MaxBatch == 2

\* A python value passed as imgs / img_metas: a list (items) or something
\* else.  A tensor is represented by its batch size, size(0); an image
\* meta by the number of its augmentation.
NotAList == [isList |-> FALSE, items |-> <<>>]
AsList(s) == [isList |-> TRUE, items |-> s]

ImgsValues == {NotAList} \cup {AsList(s) : s \in SeqUpTo(1..MaxBatch, MaxAugs)}
MetaValues == {NotAList} \cup {AsList([i \in 1..k |-> i]) : k \in 0..MaxAugs}

\* return_loss: passed explicitly or left to its default
ReturnLossArgs == {[given |-> g, value |-> v] : g \in BOOLEAN, v \in BOOLEAN}
                    \ {[given |-> FALSE, value |-> FALSE]}

\* An invocation of one of the abstract routines and the value it returns.
Invoke(routine, a, b) == [routine |-> routine, img |-> a, meta |-> b]
ResultOf(call) == [kind |-> "return", of |-> call]

\* What a handler did: the routines it invoked and how it ended.
Did(calls, out) == [calls |-> calls, out |-> out]

\* One element of a list argument (python list[i], 0-based), wrapped so
\* that it can stand where a whole list argument can.
Item(v, i) == [isList |-> FALSE, items |-> <<v.items[i + 1]>>]

\* forward_test choosing the routine by num_augs >= 1
forward_test_always_simple(imgs, img_metas) ==
    IF ~imgs.isList THEN Did(<<>>, Raise("TypeError", "imgs"))
    ELSE IF ~img_metas.isList THEN Did(<<>>, Raise("TypeError", "img_metas"))
    ELSE LET num_augs == Len(imgs.items) IN
      IF num_augs # Len(img_metas.items) THEN Did(<<>>, Raise("ValueError", "num_augs"))
      ELSE IF num_augs = 0 THEN Did(<<>>, Raise("IndexError", "imgs[0]"))
      ELSE IF imgs.items[1] # 1 THEN Did(<<>>, Raise("AssertionError", "imgs_per_gpu"))
      ELSE LET c == Invoke("simple_test", Item(imgs, 0), Item(img_metas, 0))
           IN Did(<<c>>, ResultOf(c))

\* forward_test without the imgs_per_gpu assertion
forward_test_no_assert(imgs, img_metas) ==
    IF ~imgs.isList THEN Did(<<>>, Raise("TypeError", "imgs"))
    ELSE IF ~img_metas.isList THEN Did(<<>>, Raise("TypeError", "img_metas"))
    ELSE LET num_augs == Len(imgs.items) IN
      IF num_augs # Len(img_metas.items) THEN Did(<<>>, Raise("ValueError", "num_augs"))
      ELSE IF num_augs = 0 THEN Did(<<>>, Raise("IndexError", "imgs[0]"))
      ELSE IF num_augs = 1
          THEN LET c == Invoke("simple_test", Item(imgs, 0), Item(img_metas, 0))
               IN Did(<<c>>, ResultOf(c))
          ELSE LET c == Invoke("aug_test", imgs, img_metas)
               IN Did(<<c>>, ResultOf(c))

forward_test(imgs, img_metas) ==
    IF ~imgs.isList THEN Did(<<>>, Raise("TypeError", "imgs"))
    ELSE IF ~img_metas.isList THEN Did(<<>>, Raise("TypeError", "img_metas"))
    ELSE LET num_augs == Len(imgs.items) IN
      IF num_augs # Len(img_metas.items) THEN Did(<<>>, Raise("ValueError", "num_augs"))
      ELSE IF num_augs = 0 THEN Did(<<>>, Raise("IndexError", "imgs[0]"))
      ELSE LET imgs_per_gpu == imgs.items[1] IN
        IF imgs_per_gpu # 1 THEN Did(<<>>, Raise("AssertionError", "imgs_per_gpu"))
        ELSE IF num_augs = 1
          THEN LET c == Invoke("simple_test", Item(imgs, 0), Item(img_metas, 0))
               IN Did(<<c>>, ResultOf(c))
          ELSE LET c == Invoke("aug_test", imgs, img_metas)
               IN Did(<<c>>, ResultOf(c))

forward_train(img, img_meta) ==
    LET c == Invoke("forward_train", img, img_meta) IN Did(<<c>>, ResultOf(c))

\* the value of return_loss seen by the body of forward
return_loss_default == TRUE
ReturnLoss(arg) == IF arg.given THEN arg.value ELSE return_loss_default

\* forward with the two branches exchanged
forward_swapped(img, img_meta, return_loss) ==
    IF return_loss
    THEN LET t == forward_test(img, img_meta)
         IN Did(<<Invoke("forward_test", img, img_meta)>> \o t.calls, t.out)
    ELSE forward_train(img, img_meta)

\* The log of forward records the entry into forward_test as well as the
\* abstract routines reached through it.
forward(img, img_meta, return_loss) ==
    IF return_loss
    THEN forward_train(img, img_meta)
    ELSE LET t == forward_test(img, img_meta)
         IN Did(<<Invoke("forward_test", img, img_meta)>> \o t.calls, t.out)

DetStart ==
    /\ d_pc = "ready"
    /\ d_in \in [img : ImgsValues, img_meta : MetaValues, return_loss : ReturnLossArgs]
    /\ d_calls = <<>>
    /\ d_out = NoValue

\* detector(img, img_meta, return_loss=...)
DetForward ==
    /\ d_pc = "ready"
    /\ LET r == forward(d_in.img, d_in.img_meta, ReturnLoss(d_in.return_loss)) IN
         /\ d_calls' = r.calls
         /\ d_out' = r.out
    /\ d_pc' = "forward"
    /\ UNCHANGED <<d_in, n_vars, ds_vars, g_vars, a_vars>>

\* detector.forward_test(imgs, img_metas) called directly
DetForwardTest ==
    /\ d_pc = "ready"
    /\ LET r == forward_test(d_in.img, d_in.img_meta) IN
         /\ d_calls' = r.calls
         /\ d_out' = r.out
    /\ d_pc' = "forward_test"
    /\ UNCHANGED <<d_in, n_vars, ds_vars, g_vars, a_vars>>

DetIdle ==
    /\ d_pc = "idle"
    /\ d_in = NoValue
    /\ d_calls = <<>>
    /\ d_out = NoValue

DetNext == DetForward \/ DetForwardTest

\* ---- properties of the detector ----
TestRoutines == {"simple_test", "aug_test"}
RoutinesCalled == {d_calls[i].routine : i \in 1..Len(d_calls)}
TestCalls == SelectSeq(d_calls, LAMBDA c : c.routine \in TestRoutines)
ForwardTestRan == d_pc = "forward_test" \/ (d_pc = "forward" /\ ~ReturnLoss(d_in.return_loss))
ValidTestInput ==
    /\ d_in.img.isList /\ d_in.img_meta.isList
    /\ Len(d_in.img.items) = Len(d_in.img_meta.items)
    /\ Len(d_in.img.items) >= 1
    /\ d_in.img.items[1] = 1

\* C1: forward dispatches on return_loss only.  With return_loss true (or
\* omitted) the one routine invoked is forward_train(img, img_meta), its
\* result is returned and forward_test is not entered; with return_loss
\* false forward_test(img, img_meta) is entered, forward_train is not
\* invoked, and the outcome of the call is the outcome of forward_test.
C1_ForwardDispatch ==
    d_pc = "forward" =>
        LET rl == IF d_in.return_loss.given THEN d_in.return_loss.value ELSE TRUE
            tr == Invoke("forward_train", d_in.img, d_in.img_meta)
            te == Invoke("forward_test", d_in.img, d_in.img_meta)
        IN IF rl
           THEN d_calls = <<tr>> /\ d_out = ResultOf(tr)
           ELSE /\ Len(d_calls) >= 1 /\ d_calls[1] = te
                /\ "forward_train" \notin RoutinesCalled
                /\ d_out = forward_test(d_in.img, d_in.img_meta).out
                /\ Tail(d_calls) = forward_test(d_in.img, d_in.img_meta).calls

\* the flag omitted: the training path was taken
C1_Witness ==
    /\ d_pc = "forward" /\ ~d_in.return_loss.given
    /\ RoutinesCalled = {"forward_train"} /\ d_out.kind = "return"

\* C2: on valid input (two lists of equal length n >= 1, first
\* augmentation of batch size 1) forward_test invokes exactly one test
\* routine, simple_test(imgs[0], img_metas[0]) when n = 1 and
\* aug_test(imgs, img_metas) when n > 1, and returns its result.
C2_ForwardTestRoutes ==
    (ForwardTestRan /\ ValidTestInput) =>
        LET n == Len(d_in.img.items)
            expected == IF n = 1
                        THEN Invoke("simple_test",
                                    [isList |-> FALSE, items |-> <<d_in.img.items[1]>>],
                                    [isList |-> FALSE, items |-> <<d_in.img_meta.items[1]>>])
                        ELSE Invoke("aug_test", d_in.img, d_in.img_meta)
        IN TestCalls = <<expected>> /\ d_out = ResultOf(expected)

\* aug_test was reached with several augmentations
C2_Witness ==
    /\ d_pc = "forward_test" /\ ValidTestInput /\ Len(d_in.img.items) > 1
    /\ RoutinesCalled = {"aug_test"} /\ d_out.kind = "return"

\* C3: on invalid input forward_test raises before any test routine is
\* invoked: TypeError when imgs is not a list, else TypeError when
\* img_metas is not a list, else ValueError when the lengths differ, else
\* AssertionError when the first augmentation's batch size is not 1.
C3_ForwardTestRejects ==
    (ForwardTestRan /\ ~ValidTestInput) =>
        /\ TestCalls = <<>>
        /\ d_out.kind = "raise"
        /\ ~d_in.img.isList => d_out = Raise("TypeError", "imgs")
        /\ (d_in.img.isList /\ ~d_in.img_meta.isList) => d_out = Raise("TypeError", "img_metas")
        /\ (d_in.img.isList /\ d_in.img_meta.isList
              /\ Len(d_in.img.items) # Len(d_in.img_meta.items)) => d_out.exc = "ValueError"
        /\ (d_in.img.isList /\ d_in.img_meta.isList
              /\ Len(d_in.img.items) = Len(d_in.img_meta.items)
              /\ Len(d_in.img.items) >= 1 /\ d_in.img.items[1] # 1) => d_out.exc = "AssertionError"

\* the batch-size assertion stopped a call that passed the other checks
C3_Witness ==
    /\ d_pc = "forward_test" /\ d_in.img.isList /\ d_in.img_meta.isList
    /\ Len(d_in.img.items) = 2 /\ Len(d_in.img_meta.items) = 2
    /\ d_out.kind = "raise" /\ d_out.exc = "AssertionError" /\ d_calls = <<>>

\* ------------------------------------------------------------------
\* Necks: BFP and FRCNBFP
\* ------------------------------------------------------------------
MaxLevels == 2
ChannelCounts == {1, 2}
SpatialSizes == {1, 2}
RefineTypes == {"None", "conv", "non_local"}
KernelSizes == {2, 15}
ChannelExpansions == {1, 2}

\* A feature map is a tensor (N, C, H, W).  The batch dimension N is common
\* to all levels and no operation of the necks touches it, so a shape is
\* kept as (c, h, w).  expr is the term that computes the tensor's values.
Tensor(c, h, w, expr) == [c |-> c, h |-> h, w |-> w, expr |-> expr]
Shape(t) == <<t.c, t.h, t.w>>
Input(i, c, h, w) == Tensor(c, h, w, [op |-> "inputs", i |-> i])
InputLists(k) ==
    {[i \in 1..k |-> Input(i - 1, sh[i][1], sh[i][2], sh[i][3])] :
        sh \in [1..k -> ChannelCounts \X SpatialSizes \X SpatialSizes]}

\* x.size()[2:]
size2(x) == <<x.h, x.w>>

\* F.adaptive_max_pool2d(x, output_size=size)
adaptive_max_pool2d(x, size) ==
    Tensor(x.c, size[1], size[2], [op |-> "adaptive_max_pool2d", of |-> x.expr, size |-> size])

\* F.interpolate(x, size=size, mode='nearest')
interpolate(x, size) ==
    Tensor(x.c, size[1], size[2], [op |-> "interpolate_nearest", of |-> x.expr, size |-> size])

\* torch broadcasting of one dimension; 0 when the sizes do not broadcast
BroadcastDim(a, b) == IF a = b THEN a ELSE IF a = 1 THEN b ELSE IF b = 1 THEN a ELSE 0

RECURSIVE BroadcastChannels(_)
BroadcastChannels(ts) ==
    IF Len(ts) = 1 THEN ts[1].c
    ELSE LET rest == BroadcastChannels(Tail(ts)) IN
         IF rest = 0 THEN 0 ELSE BroadcastDim(ts[1].c, rest)

RECURSIVE SumSeq(_)
SumSeq(s) == IF s = <<>> THEN 0 ELSE s[1] + SumSeq(Tail(s))

\* the gather step resizing every level by nearest interpolation
Gather_interpolate_all(cfg, inputs) ==
    LET gather_size == size2(inputs[cfg.refine_level + 1]) IN
    [i \in 1..cfg.num_levels |-> interpolate(inputs[i], gather_size)]

\* step 1 of both forwards: every level resized to inputs[refine_level]
Gather(cfg, inputs) ==
    LET gather_size == size2(inputs[cfg.refine_level + 1]) IN
    [i \in 1..cfg.num_levels |->
        IF i - 1 < cfg.refine_level
        THEN adaptive_max_pool2d(inputs[i], gather_size)
        ELSE interpolate(inputs[i], gather_size)]

\* an element of the returned sequence: a tensor, or a python list
\* holding one tensor
Plain(t) == [nested |-> FALSE, tensor |-> t]
Boxed(t) == [nested |-> TRUE, tensor |-> t]
Returned(kind, items) == [kind |-> kind, items |-> items]

\* the scatter step leaving every residual at the gathered size
BFPScatter_gather_size(cfg, inputs, feats) ==
    LET c == BroadcastChannels(feats) IN
    IF c = 0 THEN Raise("RuntimeError", "sum(feats)")
    ELSE Returned("tuple",
            [i \in 1..cfg.num_levels |->
                Plain(Tensor(c, feats[1].h, feats[1].w, [op |-> "add", i |-> i]))])

\* steps 2 and 3 of BFP.forward (output_single_lvl false)
BFPScatter(cfg, inputs, feats) ==
    LET c == BroadcastChannels(feats)
        \* sum(feats) / len(feats)
        mean == Tensor(c, feats[1].h, feats[1].w,
                       [op |-> "div",
                        of |-> [op |-> "sum", of |-> [i \in 1..Len(feats) |-> feats[i].expr]],
                        by |-> Len(feats)])
    IN
    IF c = 0 THEN Raise("RuntimeError", "sum(feats)")
    ELSE IF cfg.refine_type # "None" /\ c # cfg.in_channels[1]
      THEN Raise("RuntimeError", "refine")
    ELSE
      LET bsf == IF cfg.refine_type # "None"
                 THEN Tensor(c, mean.h, mean.w, [op |-> cfg.refine_type, of |-> mean.expr])
                 ELSE mean
          residual(i) == IF i - 1 < cfg.refine_level
                         THEN interpolate(bsf, size2(inputs[i]))
                         ELSE adaptive_max_pool2d(bsf, size2(inputs[i]))
          out(i) == Tensor(BroadcastDim(residual(i).c, inputs[i].c), inputs[i].h, inputs[i].w,
                           [op |-> "add", left |-> residual(i).expr, right |-> inputs[i].expr])
      IN IF \E i \in 1..cfg.num_levels : out(i).c = 0
         THEN Raise("RuntimeError", "residual + inputs[i]")
         ELSE Returned("tuple", [i \in 1..cfg.num_levels |-> Plain(out(i))])

\* the output_single_lvl branch of BFP.forward
BFPSingle(cfg, feats) ==
    LET cat == Tensor(SumSeq([i \in 1..Len(feats) |-> feats[i].c]), feats[1].h, feats[1].w,
                      [op |-> "cat", of |-> [i \in 1..Len(feats) |-> feats[i].expr]])
    IN
    IF cfg.refine_type # "None"
    THEN IF cat.c # SumSeq(cfg.in_channels)
         THEN Raise("RuntimeError", "refine")
         ELSE Returned("list", <<Boxed(Tensor(cfg.out_channels, cat.h, cat.w,
                                              [op |-> "refine", of |-> cat.expr]))>>)
    ELSE Returned("list", <<Plain(cat)>>)

BFP_forward(cfg, inputs) ==
    IF Len(inputs) # cfg.num_levels THEN Raise("AssertionError", "num_levels")
    ELSE LET feats == Gather(cfg, inputs) IN
         IF ~cfg.output_single_lvl
         THEN BFPScatter(cfg, inputs, feats)
         ELSE BFPSingle(cfg, feats)

\* int((k - 1) / 2) for k >= 1
ConvPadding(k) == (k - 1) \div 2
\* output length of a convolution of kernel k, stride 1, padding p; 0 when
\* the padded input is shorter than the kernel
ConvOut(len, k, p) == IF len + 2 * p < k THEN 0 ELSE len + 2 * p - k + 1

\* ContextModuleList[i]: Conv2d(in_channels[i], c_mid, (k, 1)) followed by
\* Conv2d(c_mid, (i + 1) * 49 * channel_expansion, (1, k))
ContextModule(cfg, i, x) ==
    Tensor((i + 1) * 49 * cfg.channel_expansion,
           ConvOut(x.h, cfg.k, ConvPadding(cfg.k)),
           ConvOut(x.w, cfg.k, ConvPadding(cfg.k)),
           [op |-> "ContextModule", i |-> i, of |-> x.expr])

FRCNBFP_forward(cfg, inputs) ==
    IF Len(inputs) # cfg.num_levels THEN Raise("AssertionError", "num_levels")
    ELSE LET feats == Gather(cfg, inputs)
             ctx == [i \in 1..Len(feats) |-> ContextModule(cfg, i - 1, feats[i])]
             \* what feats[i] = self.ContextModuleList[i](feats[i]) does at
             \* level i: the list has one module per entry of in_channels
             step(i) == IF i > Len(cfg.in_channels)
                          THEN Raise("IndexError", "ContextModuleList[i]")
                        ELSE IF feats[i].c # cfg.in_channels[i]
                          THEN Raise("RuntimeError", "ContextModuleList[i]")
                        ELSE IF ctx[i].h = 0 \/ ctx[i].w = 0
                          THEN Raise("RuntimeError", "kernel larger than input")
                        ELSE NoValue
             failing == {i \in 1..Len(feats) : step(i) # NoValue}
         IN
         IF failing # {}
         THEN step(CHOOSE i \in failing : \A j \in failing : i <= j)
         ELSE Returned("list",
                <<Plain(Tensor(SumSeq([i \in 1..Len(ctx) |-> ctx[i].c]), ctx[1].h, ctx[1].w,
                               [op |-> "cat", of |-> [i \in 1..Len(ctx) |-> ctx[i].expr]]))>>)

\* The attributes a constructed module can have.  Both constructors assert
\* refine_type in [None, 'conv', 'non_local'] and
\* 0 <= refine_level < num_levels, and neither compares in_channels with
\* num_levels.  in_channels is a sequence: a list where the constructor
\* sums or indexes it, and an int (a one-element sequence here) where the
\* constructor passes it to a layer; out_channels 0 stands for None.
BFPConfigs ==
    [class : {"BFP"}, num_levels : 1..MaxLevels, refine_level : 0..(MaxLevels - 1),
     refine_type : RefineTypes, output_single_lvl : BOOLEAN,
     in_channels : SeqUpTo(ChannelCounts, MaxLevels), out_channels : {0} \cup ChannelCounts,
     k : {0}, channel_expansion : {0}]

\* output_single_lvl builds ConvModule(sum(in_channels), out_channels), which
\* needs a number of output channels; 'conv' and 'non_local' build their
\* layer from the int in_channels; with refine_type None and
\* output_single_lvl false neither in_channels nor out_channels is read.
BFP__init__ ==
    {cfg \in BFPConfigs :
        /\ cfg.refine_level < cfg.num_levels
        /\ IF cfg.output_single_lvl
           THEN cfg.out_channels # 0
           ELSE cfg.refine_type # "None" => Len(cfg.in_channels) = 1}

FRCNBFPConfigs ==
    [class : {"FRCNBFP"}, num_levels : 1..MaxLevels, refine_level : 0..(MaxLevels - 1),
     refine_type : {"None"}, output_single_lvl : {FALSE},
     in_channels : SeqUpTo(ChannelCounts, MaxLevels), out_channels : {0},
     k : KernelSizes, channel_expansion : ChannelExpansions]

FRCNBFP__init__ ==
    {cfg \in FRCNBFPConfigs : cfg.refine_level < cfg.num_levels}

NeckStart ==
    /\ n_pc = "ready"
    /\ n_cfg \in BFP__init__ \cup FRCNBFP__init__
    /\ n_in \in UNION {InputLists(k) : k \in 1..MaxLevels}
    /\ n_out = NoValue

NeckIdle ==
    /\ n_pc = "idle"
    /\ n_cfg = NoValue
    /\ n_in = <<>>
    /\ n_out = NoValue

BFPForward ==
    /\ n_pc = "ready"
    /\ n_cfg.class = "BFP"
    /\ n_out' = BFP_forward(n_cfg, n_in)
    /\ n_pc' = "done"
    /\ UNCHANGED <<n_cfg, n_in, d_vars, ds_vars, g_vars, a_vars>>

FRCNBFPForward ==
    /\ n_pc = "ready"
    /\ n_cfg.class = "FRCNBFP"
    /\ n_out' = FRCNBFP_forward(n_cfg, n_in)
    /\ n_pc' = "done"
    /\ UNCHANGED <<n_cfg, n_in, d_vars, ds_vars, g_vars, a_vars>>

NeckNext == BFPForward \/ FRCNBFPForward

\* ---- properties of the necks ----
NeckReturned == n_pc = "done" /\ n_out.kind # "raise"
\* forward was given one feature map per level
OnePerLevel == Len(n_in) = n_cfg.num_levels
\* every level carries the module's in_channels channels
ChannelsAsConfigured ==
    IF Len(n_cfg.in_channels) = 1
    THEN \A i \in 1..Len(n_in) : n_in[i].c = n_cfg.in_channels[1]
    ELSE /\ Len(n_cfg.in_channels) = Len(n_in)
         /\ \A i \in 1..Len(n_in) : n_in[i].c = n_cfg.in_channels[i]
\* all levels have the same number of channels, the one the refine module
\* (if any) was built for
SameChannels ==
    /\ \A i, j \in 1..Len(n_in) : n_in[i].c = n_in[j].c
    /\ n_cfg.refine_type # "None" => ChannelsAsConfigured
SameShapedOutput ==
    /\ Len(n_out.items) = Len(n_in)
    /\ \A i \in 1..Len(n_in) :
          ~n_out.items[i].nested /\ Shape(n_out.items[i].tensor) = Shape(n_in[i])
SingleLevelModule == n_cfg.class = "FRCNBFP" \/ n_cfg.output_single_lvl

\* C4 as stated: in every configuration of BFP and FRCNBFP, forward on
\* num_levels feature maps returns as many feature maps, the i-th with the
\* shape of the i-th input.
C4_SameShapedListOut ==
    (NeckReturned /\ OnePerLevel /\ ChannelsAsConfigured) => SameShapedOutput

\* C4 amended: BFP with output_single_lvl false, given num_levels feature
\* maps that all have the same number of channels (in_channels when a
\* refine module is configured), returns a tuple of num_levels feature
\* maps, the i-th with the shape of the i-th input; BFP with
\* output_single_lvl true and FRCNBFP return a one-element list.
C4_SameShapedOnlyWhenMultiLevel ==
    /\ (n_pc = "done" /\ OnePerLevel /\ SameChannels /\ ~SingleLevelModule)
          => (n_out.kind = "tuple" /\ SameShapedOutput)
    /\ (NeckReturned /\ SingleLevelModule)
          => (n_out.kind = "list" /\ Len(n_out.items) = 1)

\* two levels of different sizes went through the multi-level BFP
C4_Witness ==
    /\ n_pc = "done" /\ n_cfg.class = "BFP" /\ ~n_cfg.output_single_lvl
    /\ n_cfg.refine_type = "conv" /\ Len(n_in) = 2 /\ size2(n_in[1]) # size2(n_in[2])
    /\ n_out.kind = "tuple"

\* ---- the values BFP.forward computes ----
MultiLevelCall == n_pc = "done" /\ n_cfg.class = "BFP" /\ ~n_cfg.output_single_lvl
RefineSize == <<n_in[n_cfg.refine_level + 1].h, n_in[n_cfg.refine_level + 1].w>>
\* level i (0-based) brought to the size of inputs[refine_level]
GatheredExpr(i) ==
    [op |-> IF i < n_cfg.refine_level THEN "adaptive_max_pool2d" ELSE "interpolate_nearest",
     of |-> n_in[i + 1].expr, size |-> RefineSize]
\* the gathered maps averaged with weight 1/num_levels each
AverageExpr ==
    [op |-> "div",
     of |-> [op |-> "sum", of |-> [i \in 1..n_cfg.num_levels |-> GatheredExpr(i - 1)]],
     by |-> n_cfg.num_levels]
RefinedExpr ==
    IF n_cfg.refine_type = "None" THEN AverageExpr
    ELSE [op |-> n_cfg.refine_type, of |-> AverageExpr]
\* the refined average brought back to the size of inputs[i]
ResidualExpr(i) ==
    [op |-> IF i < n_cfg.refine_level THEN "interpolate_nearest" ELSE "adaptive_max_pool2d",
     of |-> RefinedExpr, size |-> <<n_in[i + 1].h, n_in[i + 1].w>>]

\* C14: BFP.forward with output_single_lvl false fails an assertion when
\* the number of inputs is not num_levels; otherwise, when it returns, it
\* returns a tuple of num_levels maps, the i-th being inputs[i] plus the
\* refined average resized to the size of inputs[i], where the average
\* has weight 1/num_levels for every level gathered to the size of
\* inputs[refine_level] (max pooling below refine_level, nearest
\* interpolation from it on; nearest interpolation below refine_level and
\* max pooling from it on for the way back), and the refine step is the
\* identity for refine_type None.
C14_GatherRefineScatter ==
    MultiLevelCall =>
        /\ Len(n_in) # n_cfg.num_levels
              => (n_out.kind = "raise" /\ n_out.exc = "AssertionError")
        /\ n_out.kind # "raise" =>
              /\ Len(n_in) = n_cfg.num_levels
              /\ n_out.kind = "tuple"
              /\ Len(n_out.items) = n_cfg.num_levels
              /\ \A i \in 1..n_cfg.num_levels :
                    /\ ~n_out.items[i].nested
                    /\ n_out.items[i].tensor.expr =
                          [op |-> "add", left |-> ResidualExpr(i - 1),
                           right |-> n_in[i].expr]
                    /\ size2(n_out.items[i].tensor) = size2(n_in[i])

\* two levels of different sizes were gathered to the upper level, which
\* pools the lower one, averaged without a refine module and scattered
C14_Witness ==
    /\ MultiLevelCall /\ n_out.kind = "tuple" /\ n_cfg.num_levels = 2
    /\ n_cfg.refine_level = 1 /\ n_cfg.refine_type = "None"
    /\ size2(n_in[1]) = <<2, 2>> /\ size2(n_in[2]) = <<1, 1>>
    /\ n_out.items[1].tensor.expr.left.of.by = 2

SingleLevelCall ==
    /\ n_pc = "done" /\ n_cfg.class = "BFP" /\ n_cfg.output_single_lvl
    /\ OnePerLevel /\ ChannelsAsConfigured

\* C15: BFP.forward with output_single_lvl true returns, for every
\* refine_type, a one-element list whose element is one feature map (not a
\* nested list) at the spatial size of inputs[refine_level], computed by
\* the refine convolution of the constructor from the concatenated
\* gathered features.
C15_SingleLevelOneRefinedMap ==
    SingleLevelCall =>
        /\ n_out.kind = "list"
        /\ Len(n_out.items) = 1
        /\ ~n_out.items[1].nested
        /\ size2(n_out.items[1].tensor) = RefineSize
        /\ n_out.items[1].tensor.expr.op = "refine"
        /\ n_out.items[1].tensor.expr.of.op = "cat"
        /\ n_out.items[1].tensor.c = n_cfg.out_channels

\* ------------------------------------------------------------------
\* CustomBlockDataset: file names and the block of frames
\* ------------------------------------------------------------------
PadWidth == 6

Max(a, b) == IF a >= b THEN a ELSE b

\* int(x / 2): python's int() truncates towards zero
IntHalf(x) == IF x >= 0 THEN x \div 2 ELSE -((-x) \div 2)

RECURSIVE NumDigits(_)
NumDigits(n) == IF n < 10 THEN 1 ELSE 1 + NumDigits(n \div 10)

\* The stem of a file name (directory and extension are those of the
\* sample): a string of len decimal digits of value num ("000012" is
\* num 12, len 6); a signed number as '%06d' prints it; a text of digit
\* characters that are not decimal digits (such as a superscript two); a
\* text that is not all digits and that int() reads as num (such as "+5",
\* " 7" or "1_0"); or any other text.  None is python's None in a list of
\* names.
None == [kind |-> "None", num |-> 0, len |-> 0]
DigitStem(n, len) == [kind |-> "digits", num |-> n, len |-> len]
OtherStem == [kind |-> "other", num |-> 0, len |-> 1]
NonDecimalStem == [kind |-> "nondecimal", num |-> 0, len |-> 1]
LiteralStem(n) == [kind |-> "literal", num |-> n, len |-> 2]

\* fname.isdigit()
isdigit(fname) == fname.kind \in {"digits", "nondecimal"}

\* int(fname) returns (fname.num); otherwise it raises ValueError
IntReads(fname) == fname.kind \in {"digits", "signed", "literal"}

\* '%06d' % n
Format06(n) ==
    IF n >= 0 THEN DigitStem(n, Max(PadWidth, NumDigits(n)))
    ELSE [kind |-> "signed", num |-> n, len |-> Max(PadWidth, 1 + NumDigits(-n))]

\* hf_size computed as int(self.block_size / 2)
hf_size_of_whole_block(block_size) == IntHalf(block_size)

\* hf_size = int((self.block_size - 1) / 2)
hf_size(block_size) == IntHalf(block_size - 1)

\* osp.exists(fname_other)
exists(files, name) == name \in files

\* the name of frame fidx + i * block_gap, or None when no such file exists
NeighbourName(self, files, fidx, i) ==
    LET shift == i * self.block_gap
        fidx_other == fidx + shift
        fname_other == Format06(fidx_other)
    IN IF ~exists(files, fname_other) THEN None ELSE fname_other

\* img_name_list as prepare_train_img builds it, before the fill
TrainNameList(self, files, fname) ==
    LET hf == hf_size(self.block_size) IN
    [p \in 1..(2 * hf + 1) |->
        LET i == p - 1 - hf IN
        IF i = 0 THEN fname
        ELSE IF isdigit(fname) THEN NeighbourName(self, files, fname.num, i)
        ELSE None]

\* img_name_list as prepare_test_img builds it, before the fill
\* (fidx = int(fname) has succeeded)
TestNameList(self, files, fname) ==
    LET hf == hf_size(self.block_size) IN
    [p \in 1..(2 * hf + 1) |-> NeighbourName(self, files, fname.num, p - 1 - hf)]

\* for i in range(hf): if l[hf-1-i] is None: l[hf-1-i] = l[hf-i]
RECURSIVE FillLeft(_, _, _)
FillLeft(l, hf, i) ==
    IF i >= hf THEN l
    ELSE LET p == (hf - 1 - i) + 1 IN
         FillLeft(IF l[p] = None THEN [l EXCEPT ![p] = l[p + 1]] ELSE l, hf, i + 1)

\* the right-hand fill copying the middle entry instead of the neighbour
RECURSIVE FillRight_from_middle(_, _, _)
FillRight_from_middle(l, hf, i) ==
    IF i >= hf THEN l
    ELSE LET p == (hf + 1 + i) + 1 IN
         FillRight_from_middle(IF l[p] = None THEN [l EXCEPT ![p] = l[hf + 1]] ELSE l,
                               hf, i + 1)

\* for i in range(hf): if l[hf+1+i] is None: l[hf+1+i] = l[hf+i]
RECURSIVE FillRight(_, _, _)
FillRight(l, hf, i) ==
    IF i >= hf THEN l
    ELSE LET p == (hf + 1 + i) + 1 IN
         FillRight(IF l[p] = None THEN [l EXCEPT ![p] = l[p - 1]] ELSE l, hf, i + 1)

HasNone(l) == \E p \in 1..Len(l) : l[p] = None

\* the assertion guarding the fill fails
FillAsserts(l, hf) == HasNone(l) /\ l[hf + 1] = None

\* the missing-frame fill (defined when the assertion holds)
FillMissing(l, hf) ==
    IF HasNone(l) THEN FillRight(FillLeft(l, hf, 0), hf, 0) ELSE l

\* ------------------------------------------------------------------
\* CustomBlockDataset: construction
\* ------------------------------------------------------------------
min_size == 32

\* One entry of the annotation file.  n_gt is len(ann['bboxes']);
\* has_masks and has_file_name say whether ann['masks'] and
\* img_info['file_name'] are present (neither is part of the documented
\* annotation format).  id is the entry's position in the file.
ImgInfo(id, filename, width, height, n_gt, has_masks, has_file_name) ==
    [id |-> id, filename |-> filename, width |-> width, height |-> height,
     n_gt |-> n_gt, has_masks |-> has_masks, has_file_name |-> has_file_name]

\* One entry of the proposal file: an array of shape (n, cols)
Proposals(id, n, cols) == [id |-> id, n |-> n, cols |-> cols]

\* the filter keeping only the images strictly larger than min_size
_filter_imgs_strict(img_infos) ==
    SelectSeq([i \in 1..Len(img_infos) |-> i - 1],
              LAMBDA i : img_infos[i + 1].width > min_size
                         /\ img_infos[i + 1].height > min_size)

\* indices (0-based) of the images that are not too small
_filter_imgs(img_infos) ==
    SelectSeq([i \in 1..Len(img_infos) |-> i - 1],
              LAMBDA i : (IF img_infos[i + 1].width <= img_infos[i + 1].height
                          THEN img_infos[i + 1].width
                          ELSE img_infos[i + 1].height) >= min_size)

\* flag[i] = 1 iff width / height > 1 (true division of positive ints)
_set_group_flag(img_infos) ==
    [i \in 1..Len(img_infos) |->
        IF img_infos[i].width > img_infos[i].height THEN 1 ELSE 0]

\* The constructor.  loaded is [img_infos, has_proposals, proposals]; opt
\* holds the keyword arguments.
Construct(loaded, opt) ==
    LET valid_inds == _filter_imgs(loaded.img_infos)
        img_infos == IF ~opt.test_mode
                     THEN [k \in 1..Len(valid_inds) |-> loaded.img_infos[valid_inds[k] + 1]]
                     ELSE loaded.img_infos
        proposals == IF ~opt.test_mode /\ loaded.has_proposals
                     THEN [k \in 1..Len(valid_inds) |-> loaded.proposals[valid_inds[k] + 1]]
                     ELSE loaded.proposals
        flag == IF ~opt.test_mode THEN _set_group_flag(img_infos) ELSE <<>>
    IN \* assert flip_ratio >= 0 and flip_ratio <= 1 (flip_ratio in percent)
       IF opt.flip_ratio < 0 \/ opt.flip_ratio > 100
       THEN Raise("AssertionError", "flip_ratio")
       ELSE opt @@ [img_infos |-> img_infos, has_proposals |-> loaded.has_proposals,
                    proposals |-> proposals, flag |-> flag]

\* len(dataset)
__len__(self) == Len(self.img_infos)

\* ------------------------------------------------------------------
\* CustomBlockDataset: prepare_train_img, prepare_test_img, __getitem__
\* ------------------------------------------------------------------
\* What a preparation produced: a data dict (its keys, the files the
\* images were read from, img_meta's ori_shape and flip), None, or an
\* exception.  requested is img_name_list before the fill and
\* img_name_list the list after it, as far as the call got.
Prepared(kind, exc, keys, requested, img_name_list, ori_shape, flip) ==
    [kind |-> kind, exc |-> exc, keys |-> keys, requested |-> requested,
     img_name_list |-> img_name_list, ori_shape |-> ori_shape, flip |-> flip]

Data(keys, requested, names, ori_shape, flip) ==
    Prepared("data", "", keys, requested, names, ori_shape, flip)
ReturnNone(requested, names) == Prepared("None", "", {}, requested, names, <<>>, FALSE)
Raised(exc, requested, names) == Prepared("raise", exc, {}, requested, names, <<>>, FALSE)

\* the semantic segmentation map of a sample, as a file of seg_prefix
SegMap(img_info) == [kind |-> "seg", num |-> img_info.id, len |-> 0]

\* mmcv.imread fails on one of the names
UnreadableName(files, names) == \E p \in 1..Len(names) : ~exists(files, names[p])

\* the length of the proposal array without the truncation
TruncatedLen_whole_array(self, idx) == self.proposals[idx + 1].n

\* len(self.proposals[idx][:self.num_max_proposals])
\* (a negative limit drops that many rows from the end)
TruncatedLen(self, idx) ==
    LET n == self.proposals[idx + 1].n
        limit == self.num_max_proposals
    IN IF limit >= 0 THEN (IF n <= limit THEN n ELSE limit)
       ELSE (IF n + limit >= 0 THEN n + limit ELSE 0)

\* the values np.random.rand() < self.flip_ratio can take (flip_ratio in
\* percent; rand() is in [0, 1))
FlipChoices(self) ==
    IF self.flip_ratio = 0 THEN {FALSE}
    ELSE IF self.flip_ratio >= 100 THEN {TRUE} ELSE BOOLEAN

TrainKeys(self) ==
    {"imgs", "img_meta", "gt_bboxes"}
      \cup (IF self.has_proposals THEN {"proposals"} ELSE {})
      \cup (IF self.with_label THEN {"gt_labels"} ELSE {})
      \cup (IF self.with_crowd THEN {"gt_bboxes_ignore"} ELSE {})
      \cup (IF self.with_mask THEN {"gt_masks"} ELSE {})
      \cup (IF self.with_seg THEN {"gt_semantic_seg"} ELSE {})

prepare_train_img(self, files, idx, flip) ==
    LET img_info == self.img_infos[idx + 1]
        hf == hf_size(self.block_size)
        requested == TrainNameList(self, files, img_info.filename)
    IN
    \* fidx = int(fname) under fname.isdigit()
    IF isdigit(img_info.filename) /\ ~IntReads(img_info.filename)
      THEN Raised("ValueError", <<>>, <<>>)
    ELSE IF FillAsserts(requested, hf) THEN Raised("AssertionError", requested, <<>>)
    ELSE LET img_name_list == FillMissing(requested, hf) IN
      IF UnreadableName(files, img_name_list)
        THEN Raised("FileNotFoundError", requested, img_name_list)
      ELSE IF self.has_proposals /\ TruncatedLen(self, idx) = 0
        THEN ReturnNone(requested, img_name_list)
      ELSE IF self.has_proposals /\ self.proposals[idx + 1].cols \notin {4, 5}
        THEN Raised("AssertionError", requested, img_name_list)
      ELSE IF img_info.n_gt = 0 /\ self.skip_img_without_anno
        THEN ReturnNone(requested, img_name_list)
      ELSE IF self.extra_aug
        THEN Raised("ValueError", requested, img_name_list)
      \* np.stack(img_list, axis=0) of an empty block
      ELSE IF img_name_list = <<>>
        THEN Raised("ValueError", requested, img_name_list)
      ELSE IF self.with_seg /\ ~img_info.has_file_name
        THEN Raised("KeyError", requested, img_name_list)
      \* osp.join(self.seg_prefix, ...) with seg_prefix None
      ELSE IF self.with_seg /\ ~self.seg_prefix
        THEN Raised("TypeError", requested, img_name_list)
      ELSE IF self.with_seg /\ ~exists(files, SegMap(img_info))
        THEN Raised("FileNotFoundError", requested, img_name_list)
      ELSE IF self.with_mask /\ ~img_info.has_masks
        THEN Raised("KeyError", requested, img_name_list)
      ELSE Data(TrainKeys(self), requested, img_name_list,
                <<img_info.height, img_info.width, 3>>, flip)

prepare_test_img(self, files, idx) ==
    LET img_info == self.img_infos[idx + 1]
        fname == img_info.filename
        hf == hf_size(self.block_size)
    IN
    IF ~IntReads(fname) THEN Raised("ValueError", <<>>, <<>>)
    ELSE LET requested == TestNameList(self, files, fname) IN
      IF FillAsserts(requested, hf) THEN Raised("AssertionError", requested, <<>>)
      ELSE LET img_name_list == FillMissing(requested, hf) IN
        IF self.has_proposals /\ self.proposals[idx + 1].cols \notin {4, 5}
          THEN Raised("AssertionError", requested, img_name_list)
        ELSE IF self.num_scales # 1
          THEN Raised("AssertionError", requested, img_name_list)
        \* an empty block: prepare_single never assigned _img_meta
        ELSE IF img_name_list = <<>>
          THEN Raised("UnboundLocalError", requested, img_name_list)
        ELSE Data({"img", "img_meta"} \cup (IF self.has_proposals THEN {"proposals"} ELSE {}),
                  requested, img_name_list, <<img_info.height, img_info.width, 3>>, FALSE)

\* _rand_another drawing from every index
_rand_another_any_group(self, idx) == 0..(__len__(self) - 1)

\* _rand_another giving back the index it was given
_rand_another_same_index(self, idx) == {idx}

\* the values _rand_another(idx) can return
_rand_another(self, idx) ==
    {j \in 0..(__len__(self) - 1) : self.flag[j + 1] = self.flag[idx + 1]}

\* how a call ends with outcome out
EndOf(out) == IF out.kind = "raise" THEN "raised" ELSE "returned"

\* dataset[idx] in test mode
GetItemTest ==
    /\ g_pc = "idle"
    /\ ds.test_mode
    /\ \E idx \in 0..(__len__(ds) - 1) :
         LET data == prepare_test_img(ds, fs, idx) IN
           /\ g_req' = idx
           /\ g_idx' = idx
           /\ g_out' = data
           /\ g_pc' = EndOf(data)
    /\ UNCHANGED <<g_tried, ds_vars, d_vars, n_vars, a_vars>>

\* dataset[idx] in training mode: entry into the while loop
GetItemTrain ==
    /\ g_pc = "idle"
    /\ ~ds.test_mode
    /\ \E idx \in 0..(__len__(ds) - 1) :
           /\ g_req' = idx
           /\ g_idx' = idx
    /\ g_pc' = "loop"
    /\ UNCHANGED <<g_tried, g_out, ds_vars, d_vars, n_vars, a_vars>>

\* an iteration that also resamples when the preparation raises
GetItemIterate_retry_on_error ==
    /\ g_pc = "loop"
    /\ \E flip \in FlipChoices(ds) :
         LET data == prepare_train_img(ds, fs, g_idx, flip) IN
           /\ g_out' = data
           /\ IF data.kind # "data"
              THEN /\ g_idx' \in _rand_another(ds, g_idx)
                   /\ g_tried' = g_tried \cup {g_idx}
                   /\ g_pc' = "loop"
              ELSE /\ g_pc' = "returned"
                   /\ UNCHANGED <<g_idx, g_tried>>
    /\ UNCHANGED <<g_req, ds_vars, d_vars, n_vars, a_vars>>

\* one iteration of the while loop of __getitem__
GetItemIterate ==
    /\ g_pc = "loop"
    /\ \E flip \in FlipChoices(ds) :
         LET data == prepare_train_img(ds, fs, g_idx, flip) IN
           /\ g_out' = data
           /\ IF data.kind = "None"
              THEN /\ g_idx' \in _rand_another(ds, g_idx)
                   /\ g_tried' = g_tried \cup {g_idx}
                   /\ g_pc' = "loop"
              ELSE /\ g_pc' = EndOf(data)
                   /\ UNCHANGED <<g_idx, g_tried>>
    /\ UNCHANGED <<g_req, ds_vars, d_vars, n_vars, a_vars>>

GetItemIdle ==
    /\ g_pc = "idle"
    /\ g_req = 0
    /\ g_idx = 0
    /\ g_tried = {}
    /\ g_out = NoValue

DatasetOff ==
    /\ ds_loaded = NoValue
    /\ ds = NoValue
    /\ fs = {}
    /\ g_pc = "off"
    /\ g_req = 0
    /\ g_idx = 0
    /\ g_tried = {}
    /\ g_out = NoValue

\* the keyword arguments at their defaults (seg_prefix FALSE is None)
DefaultOptions ==
    [test_mode |-> FALSE, with_mask |-> TRUE, with_crowd |-> TRUE, with_label |-> TRUE,
     with_seg |-> FALSE, seg_prefix |-> FALSE, skip_img_without_anno |-> TRUE, extra_aug |-> FALSE,
     flip_ratio |-> 0, num_scales |-> 1, num_max_proposals |-> 1000,
     block_size |-> 5, block_gap |-> 5]

\* ---- one sample, every block geometry and directory content ----
MaxFrame == 3
MaxBlock == 5
MaxGap == 2

FrameFiles == {Format06(n) : n \in 0..MaxFrame}
ShortStem == DigitStem(1, 1)
BlockStems == FrameFiles \cup {ShortStem, OtherStem, NonDecimalStem, LiteralStem(1)}

BlockStart ==
    /\ \E fname \in BlockStems, tm \in BOOLEAN, bs \in 1..MaxBlock, bg \in 1..MaxGap :
         /\ ds_loaded = [img_infos |-> <<ImgInfo(0, fname, 64, 32, 1, TRUE, FALSE)>>,
                         has_proposals |-> FALSE, proposals |-> <<>>]
         /\ ds = Construct(ds_loaded,
                           [DefaultOptions EXCEPT !.test_mode = tm, !.block_size = bs,
                                                  !.block_gap = bg])
    /\ fs \in SUBSET BlockStems
    /\ GetItemIdle

\* ---- one training sample, every option of prepare_train_img ----
FlipRatios == {0, 50, 100}
ProposalLimits == {-2, 0, 1000}
ProposalShapes == {<<0, 4>>, <<2, 3>>, <<2, 4>>, <<2, 5>>}

PrepStart ==
    /\ \E n_gt \in {0, 1}, has_masks \in BOOLEAN, has_file_name \in BOOLEAN,
          has_proposals \in BOOLEAN, shape \in ProposalShapes,
          with_mask \in BOOLEAN, with_crowd \in BOOLEAN, with_label \in BOOLEAN,
          with_seg \in BOOLEAN, seg_prefix \in BOOLEAN, seg_map \in BOOLEAN,
          skip \in BOOLEAN, extra_aug \in BOOLEAN,
          flip_ratio \in FlipRatios, num_max \in ProposalLimits :
         /\ has_proposals \/ (shape = <<0, 4>> /\ num_max = 1000)
         /\ with_seg \/ (~seg_prefix /\ ~seg_map)
         /\ seg_prefix \/ ~seg_map
         /\ ds_loaded = [img_infos |-> <<ImgInfo(0, Format06(0), 64, 32, n_gt,
                                                  has_masks, has_file_name)>>,
                         has_proposals |-> has_proposals,
                         proposals |-> IF has_proposals
                                       THEN <<Proposals(0, shape[1], shape[2])>> ELSE <<>>]
         /\ ds = Construct(ds_loaded,
                           [DefaultOptions EXCEPT
                              !.with_mask = with_mask, !.with_crowd = with_crowd,
                              !.with_label = with_label, !.with_seg = with_seg,
                              !.seg_prefix = seg_prefix,
                              !.skip_img_without_anno = skip, !.extra_aug = extra_aug,
                              !.flip_ratio = flip_ratio, !.num_max_proposals = num_max])
         /\ fs \in {files \cup (IF seg_map THEN {SegMap(ds_loaded.img_infos[1])} ELSE {}) :
                       files \in {{Format06(0)}, {}}}
    /\ GetItemIdle

\* ---- several samples of both aspect-ratio groups ----
MaxSamples == 2
ImgSizes == {<<64, 32>>, <<32, 64>>, <<16, 64>>}
SampleChoices == ImgSizes \X {0, 1}

DataStart ==
    /\ \E k \in 1..MaxSamples :
       \E pick \in [1..k -> SampleChoices], has_proposals \in BOOLEAN,
          counts \in [1..k -> {0, 2}],
          test_mode \in BOOLEAN, skip \in BOOLEAN, extra_aug \in BOOLEAN :
         /\ has_proposals \/ (\A i \in 1..k : counts[i] = 0)
         /\ ds_loaded = [img_infos |-> [i \in 1..k |->
                                          ImgInfo(i - 1, Format06(i - 1), pick[i][1][1],
                                                  pick[i][1][2], pick[i][2], TRUE, FALSE)],
                         has_proposals |-> has_proposals,
                         proposals |-> IF has_proposals
                                       THEN [i \in 1..k |-> Proposals(i - 1, counts[i], 4)]
                                       ELSE <<>>]
         /\ ds = Construct(ds_loaded,
                           [DefaultOptions EXCEPT
                              !.test_mode = test_mode, !.skip_img_without_anno = skip,
                              !.extra_aug = extra_aug, !.block_size = 3, !.block_gap = 1])
         /\ fs = {ds_loaded.img_infos[i].filename : i \in 1..k}
    /\ GetItemIdle

\* ---- training samples that yield data, None or an exception ----
\* proposal arrays of a sample: empty, well-formed, and of a wrong shape
LiveShapes == {<<0, 4>>, <<2, 4>>, <<2, 3>>}
LiveSizes == {<<64, 32>>, <<32, 64>>}

LiveStart ==
    /\ \E k \in 1..MaxSamples :
       \E size \in [1..k -> LiveSizes], n_gt \in [1..k -> {0, 1}],
          has_proposals \in BOOLEAN, shape \in [1..k -> LiveShapes], skip \in BOOLEAN :
         /\ has_proposals \/ (\A i \in 1..k : shape[i] = <<2, 4>>)
         /\ ds_loaded = [img_infos |-> [i \in 1..k |->
                                          ImgInfo(i - 1, Format06(i - 1), size[i][1],
                                                  size[i][2], n_gt[i], TRUE, FALSE)],
                         has_proposals |-> has_proposals,
                         proposals |-> IF has_proposals
                                       THEN [i \in 1..k |->
                                               Proposals(i - 1, shape[i][1], shape[i][2])]
                                       ELSE <<>>]
         /\ ds = Construct(ds_loaded,
                           [DefaultOptions EXCEPT
                              !.skip_img_without_anno = skip,
                              !.block_size = 1, !.block_gap = 1])
         /\ fs = {ds_loaded.img_infos[i].filename : i \in 1..k}
    /\ GetItemIdle

DataNext == GetItemTest \/ GetItemTrain \/ GetItemIterate
TrainNext == GetItemTrain \/ GetItemIterate

\* ---- properties of prepare_train_img and __getitem__ ----
\* the dataset with with_mask set to b
WithMask(b) == [ds EXCEPT !.with_mask = b]

\* C7: with_mask takes no effect: for the same sample and the same random
\* choices prepare_train_img has the same outcome (keys, values, success
\* or failure) with with_mask true as with with_mask false.
C7_WithMaskNoEffect ==
    (g_pc \in {"returned", "raised"} /\ ~ds.test_mode) =>
        /\ g_out = prepare_train_img(WithMask(TRUE), fs, g_idx, g_out.flip)
        /\ g_out = prepare_train_img(WithMask(FALSE), fs, g_idx, g_out.flip)

\* C5 as stated: no operation re-attempts its work with another input
\* after a failure or an unusable result.
C5_NoRetry == g_tried = {}

\* C5 amended: a failed check (an exception) ends the call that made it
\* with that exception, and the only re-attempt is that of __getitem__ in
\* training mode, which happens after prepare_train_img returned None and
\* never after an exception.
C5_RetryOnlyAfterNone ==
    /\ g_tried # {} =>
          /\ ~ds.test_mode
          /\ \A j \in g_tried : \A flip \in FlipChoices(ds) :
                prepare_train_img(ds, fs, j, flip).kind = "None"
    /\ g_pc = "raised" =>
          /\ g_out.kind = "raise"
          /\ g_out = IF ds.test_mode THEN prepare_test_img(ds, fs, g_idx)
                      ELSE prepare_train_img(ds, fs, g_idx, g_out.flip)
    /\ (g_pc = "loop" /\ g_out # NoValue) => g_out.kind = "None"

\* a training call ended with an exception raised by its second attempt
C5_Witness ==
    /\ g_pc = "raised" /\ ~ds.test_mode /\ g_tried # {} /\ g_idx \notin g_tried
    /\ g_out.exc = "ValueError"

GroupFlag(i) == IF ds.img_infos[i + 1].width > ds.img_infos[i + 1].height THEN 1 ELSE 0

\* C10: in training mode __getitem__ never returns None; every index it
\* tries has the group flag (1 iff width/height > 1) of the requested
\* index; what it returns is the result for the first index whose
\* preparation did not give None.  In test mode nothing is resampled and
\* prepare_test_img(idx) is the result.
C10_ResampleWithinGroup ==
    /\ (g_pc # "idle" /\ ~ds.test_mode) =>
          /\ \A j \in g_tried \cup {g_idx} : GroupFlag(j) = GroupFlag(g_req)
          /\ \A j \in g_tried : \A flip \in FlipChoices(ds) :
                prepare_train_img(ds, fs, j, flip).kind = "None"
          /\ g_pc = "returned" =>
                /\ g_out.kind = "data"
                /\ g_out = prepare_train_img(ds, fs, g_idx, g_out.flip)
          /\ (g_pc = "loop" /\ g_tried = {}) => g_idx = g_req
    /\ (g_pc # "idle" /\ ds.test_mode) =>
          /\ g_tried = {} /\ g_idx = g_req
          /\ g_out = prepare_test_img(ds, fs, g_req)
          /\ g_out.kind # "None"

\* a training call returned data for an index other than the requested one
C10_Witness ==
    /\ g_pc = "returned" /\ ~ds.test_mode /\ g_idx # g_req /\ g_req \in g_tried
    /\ g_out.kind = "data" /\ __len__(ds) >= 2


\* ---- the dataset after construction ----
Constructed == ds # NoValue /\ ds_loaded # NoValue
\* positions (1-based) of the loaded entries that are large enough
LargeEnough ==
    {i \in 1..Len(ds_loaded.img_infos) :
        ds_loaded.img_infos[i].width >= 32 /\ ds_loaded.img_infos[i].height >= 32}
\* the position in the annotation file of the k-th retained entry
LoadedAt(k) == ds.img_infos[k].id + 1

\* C13: constructed with test_mode false, img_infos holds exactly the
\* loaded entries with min(width, height) >= 32 in their original order,
\* and proposals[i] is the proposal entry loaded at the position img_infos[i]
\* was loaded at; with test_mode true nothing is removed; len(dataset) is
\* the number of retained entries.
C13_FilterKeepsAlignment ==
    Constructed =>
        /\ ~ds.test_mode =>
              /\ {LoadedAt(k) : k \in 1..Len(ds.img_infos)} = LargeEnough
              /\ \A k \in 1..Len(ds.img_infos) :
                    ds.img_infos[k] = ds_loaded.img_infos[LoadedAt(k)]
              /\ \A k, l \in 1..Len(ds.img_infos) : k < l => LoadedAt(k) < LoadedAt(l)
              /\ __len__(ds) = Cardinality(LargeEnough)
              /\ ds.has_proposals =>
                    /\ Len(ds.proposals) = Len(ds.img_infos)
                    /\ \A k \in 1..Len(ds.img_infos) :
                          /\ ds.proposals[k] = ds_loaded.proposals[LoadedAt(k)]
                          /\ ds.proposals[k].id = ds.img_infos[k].id
        /\ ds.test_mode =>
              /\ ds.img_infos = ds_loaded.img_infos
              /\ ds.proposals = ds_loaded.proposals
              /\ __len__(ds) = Len(ds_loaded.img_infos)

\* a too small first image was removed together with its proposals, and
\* the image that moved up was prepared with its own proposals
C13_Witness ==
    /\ Constructed /\ ~ds.test_mode /\ ds.has_proposals
    /\ Len(ds_loaded.img_infos) = 2 /\ LargeEnough = {2}
    /\ ds_loaded.proposals[1].n = 0 /\ ds_loaded.proposals[2].n = 2
    /\ __len__(ds) = 1 /\ ds.proposals[1].id = 1
    /\ g_pc = "returned" /\ g_idx = 0 /\ g_out.kind = "data"

\* ---- the outcomes of prepare_train_img for the one sample of PrepStart ----
Prepared0 == g_out # NoValue /\ ~ds.test_mode /\ __len__(ds) = 1
\* (a) proposals are loaded and the truncated proposal array is empty
NoProposalsLeft ==
    /\ ds.has_proposals
    /\ \/ ds.proposals[1].n = 0
       \/ ds.num_max_proposals = 0
       \/ ds.num_max_proposals < 0 /\ ds.proposals[1].n <= -ds.num_max_proposals
\* (b) no ground-truth box and skip_img_without_anno
NoGtAndSkip == ds.img_infos[1].n_gt = 0 /\ ds.skip_img_without_anno
\* the proposal array is neither (n, 4) nor (n, 5)
BadProposalShape == ds.has_proposals /\ ds.proposals[1].cols \notin {4, 5}
\* the sample's image file cannot be read
ImageMissing == ds.img_infos[1].filename \notin fs

\* C12 as stated: prepare_train_img returns None exactly when (a) or (b);
\* with skip_img_without_anno false a sample without ground-truth boxes
\* is not skipped for that; with extra_aug a sample that is not skipped
\* fails with ValueError.
C12_NoneInTwoCases ==
    Prepared0 =>
        /\ g_out.kind = "None" <=> (NoProposalsLeft \/ NoGtAndSkip)
        /\ (ds.img_infos[1].n_gt = 0 /\ ~ds.skip_img_without_anno /\ ~NoProposalsLeft)
              => g_out.kind # "None"
        /\ (ds.extra_aug /\ g_out.kind # "None")
              => (g_out.kind = "raise" /\ g_out.exc = "ValueError")

\* C12 amended: prepare_train_img returns None exactly when the images
\* were read and (a) holds, or the images were read, the proposal array
\* (if any) is well-formed and (b) holds; an unreadable image or an
\* ill-formed non-empty proposal array raises before the sample can be
\* skipped.  With extra_aug the call never returns data, and a sample that
\* is not skipped fails with ValueError exactly when it got past those two
\* checks.
C12_NoneInTwoCasesAfterChecks ==
    Prepared0 =>
        /\ g_out.kind = "None" <=>
              (~ImageMissing /\ (NoProposalsLeft \/ (~BadProposalShape /\ NoGtAndSkip)))
        /\ (ds.img_infos[1].n_gt = 0 /\ ~ds.skip_img_without_anno /\ ~NoProposalsLeft)
              => g_out.kind # "None"
        /\ (ds.extra_aug /\ g_out.kind # "None") =>
              /\ g_out.kind = "raise"
              /\ g_out.exc = "ValueError" <=> (~ImageMissing /\ ~BadProposalShape)
        /\ (ImageMissing => (g_out.kind = "raise" /\ g_out.exc = "FileNotFoundError"))
        /\ (~ImageMissing /\ ~NoProposalsLeft /\ BadProposalShape)
              => (g_out.kind = "raise" /\ g_out.exc = "AssertionError")

\* a sample with a ground-truth box and two proposals was skipped because
\* num_max_proposals leaves none of them
C12_Witness ==
    /\ Prepared0 /\ g_out.kind = "None" /\ ds.has_proposals
    /\ ds.proposals[1].n = 2 /\ ds.num_max_proposals = 0
    /\ ds.img_infos[1].n_gt = 1 /\ ds.extra_aug

\* np.random.choice(pool) is fair: an index of the pool that can be drawn
\* again and again is drawn at some time
Resample(j) == GetItemIterate /\ g_idx' = j
FairChoice == \A j \in 0..(MaxSamples - 1) : SF_vars(Resample(j))

\* what prepare_train_img gives for index j: "data", "None" or "raise"
Yields(j) == prepare_train_img(ds, fs, j, FALSE).kind
\* the aspect-ratio group of the requested index
GroupOfRequest == {j \in 0..(__len__(ds) - 1) : GroupFlag(j) = GroupFlag(g_req)}
InCall == g_pc \in {"loop", "returned", "raised"}
GroupHasData == InCall /\ \E j \in GroupOfRequest : Yields(j) = "data"
GroupAllNone == InCall /\ \A j \in GroupOfRequest : Yields(j) = "None"
GroupRaises == InCall /\ \E j \in GroupOfRequest : Yields(j) = "raise"

\* C11 as stated: a training call whose group has a sample that yields
\* data eventually returns; a call whose group yields None for every
\* sample never returns.
C11_EventuallyReturns ==
    /\ (g_pc = "loop" /\ GroupHasData) ~> (g_pc = "returned")
    /\ [](GroupAllNone => g_pc = "loop")

\* C11 amended: a training call whose group has a sample that yields data
\* eventually ends, by returning data or by the exception of a sample of
\* the group; it eventually returns when no sample of the group raises;
\* it returns only data; a call whose group yields None for every sample
\* never ends.
C11_EventuallyEnds ==
    /\ (g_pc = "loop" /\ GroupHasData) ~> (g_pc \in {"returned", "raised"})
    /\ (g_pc = "loop" /\ GroupHasData /\ ~GroupRaises) ~> (g_pc = "returned")
    /\ [](g_pc = "raised" => (GroupRaises /\ Yields(g_idx) = "raise"))
    /\ [](g_pc = "returned" => (GroupHasData /\ Yields(g_idx) = "data"))
    /\ [](GroupAllNone => g_pc = "loop")

\* a call returned data after it had drawn another index for a sample
\* with an empty proposal array
C11_Witness ==
    /\ g_pc = "returned" /\ ds.has_proposals /\ g_req \in g_tried
    /\ TruncatedLen(ds, g_req) = 0 /\ Yields(g_idx) = "data"
    /\ ~GroupRaises

\* ---- properties of the block of frames ----
CallEnded == g_pc \in {"returned", "raised"}
Sample == ds.img_infos[g_idx + 1]
\* the sample's stem is a frame number: decimal digits that int() reads
FrameStem == isdigit(Sample.filename) /\ IntReads(Sample.filename)
\* floor((block_size - 1) / 2) for block_size >= 1
HalfBlock == (ds.block_size - 1) \div 2
\* the frame a name refers to
FrameOf(name) == name.num
\* the list was built for a sample whose stem is a frame number
BlockBuilt == CallEnded /\ FrameStem /\ g_out.requested # <<>>
BlockFilled == CallEnded /\ FrameStem /\ g_out.img_name_list # <<>>
BlockLength(l) ==
    /\ Len(l) = 2 * HalfBlock + 1
    /\ (Len(l) = ds.block_size) <=> (ds.block_size % 2 = 1)

\* C6 as stated: the block has 2*h+1 entries, h = floor((block_size-1)/2),
\* ordered by increasing frame number; entry h+i refers to frame
\* f + i*block_gap (the middle one to the sample's own frame f); it has
\* block_size entries exactly when block_size is odd.
C6_BlockFrames ==
    BlockFilled =>
        LET l == g_out.img_name_list
            h == HalfBlock
            f == FrameOf(Sample.filename)
        IN /\ BlockLength(l)
           /\ \A i \in (-h)..h :
                 l[h + 1 + i] # None /\ FrameOf(l[h + 1 + i]) = f + i * ds.block_gap
           /\ \A p \in 1..(Len(l) - 1) : FrameOf(l[p]) < FrameOf(l[p + 1])

\* C6 amended: the list has 2*h+1 positions; position h+i stands for frame
\* f + i*block_gap and holds that frame's file when the file exists and
\* None otherwise; the entries present are ordered by increasing frame
\* number; in prepare_train_img the middle position always holds the
\* sample's own file; the list has block_size positions exactly when
\* block_size is odd.
C6_BlockFramesWhereFilesExist ==
    BlockBuilt =>
        LET l == g_out.requested
            h == HalfBlock
            f == FrameOf(Sample.filename)
        IN /\ BlockLength(l)
           /\ \A i \in (-h)..h :
                 LET e == l[h + 1 + i]
                     name == Format06(f + i * ds.block_gap)
                 IN IF i = 0 /\ ~ds.test_mode
                    THEN e = Sample.filename /\ FrameOf(e) = f
                    ELSE /\ name \in fs => (e = name /\ FrameOf(e) = f + i * ds.block_gap)
                         /\ name \notin fs => e = None
           /\ \A p, q \in 1..Len(l) :
                 (p < q /\ l[p] # None /\ l[q] # None) => FrameOf(l[p]) < FrameOf(l[q])

\* an even block_size gave three positions, one neighbour present and one missing
C6_Witness ==
    /\ BlockBuilt /\ ds.block_size = 4 /\ Len(g_out.requested) = 3
    /\ g_out.requested[1] # None /\ g_out.requested[3] = None
    /\ g_out.kind = "data"

\* the position nearest to p, going towards mid, whose entry is not None
RECURSIVE NearestPresent(_, _, _)
NearestPresent(r, p, mid) ==
    IF p = mid \/ r[p] # None THEN p
    ELSE NearestPresent(r, IF p < mid THEN p + 1 ELSE p - 1, mid)

FillIsRight ==
    BlockFilled =>
        LET r == g_out.requested
            l == g_out.img_name_list
            mid == HalfBlock + 1
        IN /\ Len(l) = Len(r)
           /\ \A p \in 1..Len(l) : l[p] # None
           /\ l[mid] = r[mid]
           /\ \A p \in 1..Len(l) : r[p] # None => l[p] = r[p]
           /\ \A p \in 1..Len(l) :
                 (r[p] = None /\ p < mid) => l[p] = l[p + 1]
           /\ \A p \in 1..Len(l) :
                 (r[p] = None /\ p > mid) => l[p] = l[p - 1]
           /\ \A p \in 1..Len(l) : l[p] = r[NearestPresent(r, p, mid)]

\* the file the middle position stands for
MiddleFile == IF ds.test_mode THEN Format06(FrameOf(Sample.filename)) ELSE Sample.filename

\* C9 as stated: after the fill no entry is missing, the middle entry is
\* unchanged, a present entry is never replaced and a missing one takes
\* the entry of the adjacent position towards the middle; if the middle
\* frame is missing the construction fails an assertion and no list is
\* produced.
C9_FillOrAssert ==
    /\ FillIsRight
    /\ (CallEnded /\ FrameStem /\ MiddleFile \notin fs)
          => (g_out.kind = "raise" /\ g_out.exc = "AssertionError"
              /\ g_out.img_name_list = <<>>)

\* C9 amended: the fill is as stated; in prepare_test_img a missing middle
\* frame fails the assertion and no list is produced; in prepare_train_img
\* the middle entry is the sample's own file name whether or not the file
\* exists, so the assertion never fails and, once int(fname) has not
\* failed, the list is produced.
C9_FillAndTestAssert ==
    /\ FillIsRight
    /\ (CallEnded /\ FrameStem /\ ds.test_mode /\ MiddleFile \notin fs)
          => (g_out.kind = "raise" /\ g_out.exc = "AssertionError"
              /\ g_out.img_name_list = <<>>)
    /\ (CallEnded /\ ~ds.test_mode) => g_out.exc # "AssertionError"
    /\ (CallEnded /\ ~ds.test_mode /\ g_out.exc # "ValueError")
          => (/\ g_out.requested[HalfBlock + 1] = Sample.filename
              /\ g_out.img_name_list # <<>>
              /\ g_out.img_name_list[HalfBlock + 1] = Sample.filename)

\* a missing outer frame took the nearer frame that exists, not the middle
C9_Witness ==
    /\ BlockFilled /\ HalfBlock = 2
    /\ g_out.requested[4] # None /\ g_out.requested[5] = None
    /\ g_out.img_name_list[5] = g_out.requested[4]
    /\ g_out.requested[1] = None /\ g_out.requested[2] = None
    /\ g_out.img_name_list[1] = g_out.requested[3]

\* ------------------------------------------------------------------
\* anchor_target_single
\* ------------------------------------------------------------------
MaxAnchors == 2

\* img_meta['img_shape'][:2] of the model's image: (img_h, img_w)
AnchorImgShape == <<4, 4>>
\* boxes (x1, y1, x2, y2): inside the image, crossing it by one pixel on
\* the left/top, touching the right/bottom border, and far outside
AnchorBoxes == {<<0, 0, 3, 3>>, <<-1, -1, 3, 3>>, <<0, 0, 4, 4>>, <<-2, 0, 6, 3>>}
AllowedBorders == {-1, 0, 1}
\* the value bbox2delta gives for a positive anchor
PosDelta == <<1, 0, -1, 2>>
\* the class of the ground-truth box assigned to a positive anchor; 0
\* stands for gt_labels being None
GtLabels == {0, 3}

ZeroRow == <<0, 0, 0, 0>>
OneRow == <<1, 1, 1, 1>>

\* the inside test with the right and bottom bounds included
anchor_inside_flags_inclusive(flat_anchors, valid_flags, img_shape, allowed_border) ==
    LET img_h == img_shape[1]
        img_w == img_shape[2]
    IN IF allowed_border >= 0
       THEN [i \in 1..Len(flat_anchors) |->
               /\ valid_flags[i]
               /\ flat_anchors[i][1] >= -allowed_border
               /\ flat_anchors[i][2] >= -allowed_border
               /\ flat_anchors[i][3] <= img_w + allowed_border
               /\ flat_anchors[i][4] <= img_h + allowed_border]
       ELSE valid_flags

anchor_inside_flags(flat_anchors, valid_flags, img_shape, allowed_border) ==
    LET img_h == img_shape[1]
        img_w == img_shape[2]
    IN IF allowed_border >= 0
       THEN [i \in 1..Len(flat_anchors) |->
               /\ valid_flags[i]
               /\ flat_anchors[i][1] >= -allowed_border
               /\ flat_anchors[i][2] >= -allowed_border
               /\ flat_anchors[i][3] < img_w + allowed_border
               /\ flat_anchors[i][4] < img_h + allowed_border]
       ELSE valid_flags

\* the number of set flags among inds[1..i]
CountTrue(inds, i) == Cardinality({j \in 1..i : inds[j]})

\* unmap(data, count, inds, fill): data laid out at the set positions of
\* the mask inds, fill elsewhere
unmap(data, count, inds, fill) ==
    [i \in 1..count |-> IF inds[i] THEN data[CountTrue(inds, i)] ELSE fill]

Targets(labels, label_weights, bbox_targets, bbox_weights, pos_inds, neg_inds, inside) ==
    [kind |-> "targets", exc |-> "", labels |-> labels, label_weights |-> label_weights,
     bbox_targets |-> bbox_targets, bbox_weights |-> bbox_weights,
     pos_inds |-> pos_inds, neg_inds |-> neg_inds, has_inds |-> TRUE,
     inside_flags |-> inside]
\* (None, ) * 6
SixNone(inside) ==
    [kind |-> "None", exc |-> "", labels |-> <<>>, label_weights |-> <<>>,
     bbox_targets |-> <<>>, bbox_weights |-> <<>>, pos_inds |-> {}, neg_inds |-> {},
     has_inds |-> FALSE, inside_flags |-> inside]
AnchorRaised(exc, inside) == [SixNone(inside) EXCEPT !.kind = "raise", !.exc = exc]

\* all: the arguments; pos_inds, neg_inds: what the assigner and sampler
\* return (positions among the inside anchors, numbered from 1)
anchor_target_single(all, pos_inds, neg_inds) ==
    LET inside_flags == anchor_inside_flags(all.flat_anchors, all.valid_flags,
                                            AnchorImgShape, all.allowed_border)
        num_total_anchors == Len(all.flat_anchors)
        num_valid_anchors == CountTrue(inside_flags, num_total_anchors)
        V == 1..num_valid_anchors
    IN
    IF ~(\E i \in 1..num_total_anchors : inside_flags[i]) THEN SixNone(inside_flags)
    ELSE IF all.gt \in {"None", "empty"}
      THEN [Targets(unmap([i \in V |-> 0], num_total_anchors, inside_flags, 0),
                    unmap([i \in V |-> 1], num_total_anchors, inside_flags, 0),
                    unmap([i \in V |-> ZeroRow], num_total_anchors, inside_flags, ZeroRow),
                    unmap([i \in V |-> ZeroRow], num_total_anchors, inside_flags, ZeroRow),
                    {}, {}, inside_flags) EXCEPT !.has_inds = FALSE]
    ELSE IF pos_inds # {} /\ all.pos_weight > 0
      THEN AnchorRaised("AssertionError", inside_flags)
    ELSE
      LET bbox_targets == [i \in V |-> IF i \in pos_inds THEN PosDelta ELSE ZeroRow]
          bbox_weights == [i \in V |-> IF i \in pos_inds THEN OneRow ELSE ZeroRow]
          labels == [i \in V |-> IF i \in pos_inds
                                  THEN (IF all.gt_label = 0 THEN 1 ELSE all.gt_label) ELSE 0]
          label_weights == [i \in V |-> IF i \in pos_inds \cup neg_inds THEN 1 ELSE 0]
      IN
      IF SumSeq(label_weights) # Cardinality(pos_inds) + Cardinality(neg_inds)
        THEN AnchorRaised("AssertionError", inside_flags)
      ELSE IF all.unmap_outputs
        THEN Targets(unmap(labels, num_total_anchors, inside_flags, 0),
                     unmap(label_weights, num_total_anchors, inside_flags, 0),
                     unmap(bbox_targets, num_total_anchors, inside_flags, ZeroRow),
                     unmap(bbox_weights, num_total_anchors, inside_flags, ZeroRow),
                     pos_inds, neg_inds, inside_flags)
        ELSE Targets(labels, label_weights, bbox_targets, bbox_weights,
                     pos_inds, neg_inds, inside_flags)

AnchorStart ==
    /\ a_pc = "ready"
    /\ \E n \in 1..MaxAnchors :
         a_in \in [flat_anchors : [1..n -> AnchorBoxes], valid_flags : [1..n -> BOOLEAN],
                   allowed_border : AllowedBorders, gt : {"None", "empty", "some"},
                   gt_label : GtLabels, pos_weight : {-1, 1},
                   sampling : BOOLEAN, unmap_outputs : BOOLEAN]
    /\ a_out = NoValue

AnchorIdle ==
    /\ a_pc = "idle"
    /\ a_in = NoValue
    /\ a_out = NoValue

\* The assigner and sampler (assign_and_sample when sampling is set, the
\* configured assigner with PseudoSampler otherwise) may mark any inside
\* anchors positive or negative.
AnchorTargetSingle ==
    /\ a_pc = "ready"
    /\ LET inside == anchor_inside_flags(a_in.flat_anchors, a_in.valid_flags,
                                         AnchorImgShape, a_in.allowed_border)
           V == 1..CountTrue(inside, Len(inside))
       IN \E pos_inds \in SUBSET V, neg_inds \in SUBSET V :
            /\ a_in.gt # "some" => (pos_inds = {} /\ neg_inds = {})
            /\ a_out' = anchor_target_single(a_in, pos_inds, neg_inds)
    /\ a_pc' = "done"
    /\ UNCHANGED <<a_in, d_vars, n_vars, ds_vars, g_vars>>

AnchorNext == AnchorTargetSingle

\* ---- properties of anchor_target_single ----
\* an anchor is inside: valid, and with allowed_border >= 0 within the
\* image bounds expanded by allowed_border
IsInside(i) ==
    /\ a_in.valid_flags[i]
    /\ a_in.allowed_border >= 0 =>
          /\ a_in.flat_anchors[i][1] >= -a_in.allowed_border
          /\ a_in.flat_anchors[i][2] >= -a_in.allowed_border
          /\ a_in.flat_anchors[i][3] < AnchorImgShape[2] + a_in.allowed_border
          /\ a_in.flat_anchors[i][4] < AnchorImgShape[1] + a_in.allowed_border
AnchorSet == 1..Len(a_in.flat_anchors)
PerAnchorTargets ==
    /\ a_out.kind = "targets"
    /\ Len(a_out.labels) = Len(a_in.flat_anchors)
    /\ Len(a_out.label_weights) = Len(a_in.flat_anchors)
    /\ Len(a_out.bbox_targets) = Len(a_in.flat_anchors)
    /\ Len(a_out.bbox_weights) = Len(a_in.flat_anchors)
    /\ \A i \in AnchorSet :
          ~IsInside(i) => /\ a_out.labels[i] = 0
                          /\ a_out.label_weights[i] = 0
                          /\ a_out.bbox_targets[i] = ZeroRow
                          /\ a_out.bbox_weights[i] = ZeroRow
InsideWithinValid ==
    /\ \A i \in AnchorSet : a_out.inside_flags[i] <=> IsInside(i)
    /\ \A i \in AnchorSet : a_out.inside_flags[i] => a_in.valid_flags[i]
    /\ a_in.allowed_border < 0 => a_out.inside_flags = a_in.valid_flags
UnmappedCallReturned == a_pc = "done" /\ a_in.unmap_outputs /\ a_out.kind # "raise"

\* C8 as stated: with unmap_outputs true the four targets have one entry
\* per input anchor and are zero at every anchor that is not inside; the
\* inside set is within the valid set and equal to it when
\* allowed_border < 0.
C8_UnmappedTargets ==
    UnmappedCallReturned => (PerAnchorTargets /\ InsideWithinValid)

\* C8 amended: the same, whenever at least one anchor is inside; with no
\* anchor inside, the six results are None.
C8_UnmappedTargetsIfAnyInside ==
    UnmappedCallReturned =>
        /\ InsideWithinValid
        /\ IF \E i \in AnchorSet : IsInside(i)
           THEN PerAnchorTargets
           ELSE a_out.kind = "None"

\* targets were mapped back over an anchor that is valid but outside
C8_Witness ==
    /\ UnmappedCallReturned /\ a_in.gt = "some" /\ a_in.allowed_border = 0
    /\ Len(a_in.flat_anchors) = 2
    /\ a_in.valid_flags[1] /\ ~IsInside(1) /\ IsInside(2)
    /\ a_out.kind = "targets" /\ a_out.pos_inds = {1}
    /\ a_out.labels = <<0, 1>> /\ a_out.bbox_targets = <<ZeroRow, PosDelta>>

\* ------------------------------------------------------------------
\* Specifications, one per component
\* ------------------------------------------------------------------
InitDet == DetStart /\ NeckIdle /\ DatasetOff /\ AnchorIdle
InitNeck == DetIdle /\ NeckStart /\ DatasetOff /\ AnchorIdle
InitBlock == DetIdle /\ NeckIdle /\ BlockStart /\ AnchorIdle
InitPrep == DetIdle /\ NeckIdle /\ PrepStart /\ AnchorIdle
InitData == DetIdle /\ NeckIdle /\ DataStart /\ AnchorIdle
InitLive == DetIdle /\ NeckIdle /\ LiveStart /\ AnchorIdle
InitAnchor == DetIdle /\ NeckIdle /\ DatasetOff /\ AnchorStart

SpecDet == InitDet /\ [][DetNext]_vars
SpecNeck == InitNeck /\ [][NeckNext]_vars
SpecBlock == InitBlock /\ [][DataNext]_vars
SpecPrep == InitPrep /\ [][TrainNext]_vars
SpecData == InitData /\ [][DataNext]_vars
SpecAnchor == InitAnchor /\ [][AnchorNext]_vars
SpecLive == InitLive /\ [][TrainNext]_vars /\ FairChoice

=============================================================================
